---- MODULE Spec2Model ----
(***************************************************************************)
(* A model of valmid (github.com/iamolegga/valmid): the decode - validate  *)
(* - dispatch pipeline built by Middleware[T], the process-wide registry   *)
(* (defaultErrorHandler, defaultValidator) guarded by the RWMutex mu, the  *)
(* per-middleware error-handler override, and the result accessor Get[T].  *)
(*                                                                         *)
(* Request binding (httpin's core.Decode) and rule evaluation (validator's *)
(* Struct) are libraries valmid calls; they are modelled from the          *)
(* documented behaviour (README, doc.go, the tests' struct tags).          *)
(***************************************************************************)
EXTENDS Integers, Sequences, FiniteSets, TLC

----------------------------------------------------------------------------
(* Bounds of the model *)

\* SetErrorHandler / SetValidator calls made in one behaviour
MaxSets == 2

\* http.StatusBadRequest, written by the built-in error handler
StatusBadRequest == 400
\* http.StatusTeapot, written by the tests' custom error handlers
StatusTeapot == 418

----------------------------------------------------------------------------
(* Raw text: a string is the sequence of its characters *)

DigitVal ==
    [c \in {"0", "1", "2", "3", "4", "5", "6", "7", "8", "9"} |->
        CASE c = "0" -> 0 [] c = "1" -> 1 [] c = "2" -> 2 [] c = "3" -> 3
          [] c = "4" -> 4 [] c = "5" -> 5 [] c = "6" -> 6 [] c = "7" -> 7
          [] c = "8" -> 8 [] OTHER -> 9]

IsDigits(s) == s # <<>> /\ \A i \in 1..Len(s) : s[i] \in DOMAIN DigitVal

RECURSIVE ParseDigits(_)
ParseDigits(s) ==
    IF s = <<>> THEN 0
    ELSE 10 * ParseDigits(SubSeq(s, 1, Len(s) - 1)) + DigitVal[s[Len(s)]]

\* text-to-integer conversion of a scalar field (decimal, optional sign)
ParseInt(s) ==
    IF IsDigits(s) THEN [ok |-> TRUE, val |-> ParseDigits(s)]
    ELSE IF Len(s) > 1 /\ s[1] \in {"-", "+"} /\ IsDigits(Tail(s))
         THEN [ok |-> TRUE,
               val |-> (IF s[1] = "-" THEN -1 ELSE 1) * ParseDigits(Tail(s))]
         ELSE [ok |-> FALSE, val |-> 0]

EmptyStr == <<>>
S_0 == <<"0">>
S_1 == <<"1">>
S_2 == <<"2">>
S_42 == <<"4", "2">>
S_a == <<"a">>
S_b == <<"b">>
S_c == <<"c">>
S_Jo == <<"J", "o">>
S_John == <<"J", "o", "h", "n">>
S_secret == <<"s", "e", "c", "r", "e", "t">>
S_alt == <<"a", "l", "t">>

----------------------------------------------------------------------------
(* Input shapes: the struct tags of the tests and of the README *)

Src(kind, key) == <<kind, key>>

FieldDecl(name, type, sources, required, hasDefault, default, rules, nested) ==
    [name |-> name, type |-> type, sources |-> sources, required |-> required,
     hasDefault |-> hasDefault, default |-> default, rules |-> rules,
     nested |-> nested]

Rule(name, arg) == [name |-> name, arg |-> arg]

\* type Body struct { Name string `json:"name" validate:"required,min=3"` }
BodyRules == <<Rule("required", 0), Rule("min", 3)>>

\* type Input struct (the tests' shape)
InputShape ==
    [name |-> "Input",
     fields |-> <<
        FieldDecl("ID", "int", <<Src("path", "id")>>, FALSE, FALSE, EmptyStr,
                  <<Rule("gt", 0)>>, <<>>),
        FieldDecl("Page", "int", <<Src("query", "page")>>, FALSE, TRUE, S_1,
                  <<>>, <<>>),
        FieldDecl("Token", "string", <<Src("header", "X-Token")>>, FALSE, FALSE,
                  EmptyStr, <<Rule("required", 0)>>, <<>>),
        FieldDecl("Body", "body", <<Src("body", "json")>>, FALSE, FALSE,
                  EmptyStr, <<>>, BodyRules),
        FieldDecl("Field", "string", <<Src("form", "field")>>, FALSE, FALSE,
                  EmptyStr, <<>>, <<>>) >>]

\* type BadInput struct { Field string `in:"unknown=bad"` }
BadInputShape ==
    [name |-> "BadInput",
     fields |-> <<
        FieldDecl("Field", "string", <<Src("unknown", "bad")>>, FALSE, FALSE,
                  EmptyStr, <<>>, <<>>) >>]

\* type MultiQueryInput struct { Tags []string `in:"query=tag" ...` }
MultiQueryInputShape ==
    [name |-> "MultiQueryInput",
     fields |-> <<
        FieldDecl("Tags", "strings", <<Src("query", "tag")>>, FALSE, FALSE,
                  EmptyStr,
                  <<Rule("required", 0), Rule("min", 1), Rule("dive_required", 0)>>,
                  <<>>) >>]

\* the README's combined declarations:
\*   in:"query=token;header=X-Token"   in:"query=id;required"
FallbackInputShape ==
    [name |-> "FallbackInput",
     fields |-> <<
        FieldDecl("Token", "string",
                  <<Src("query", "token"), Src("header", "X-Token")>>,
                  FALSE, FALSE, EmptyStr, <<>>, <<>>),
        FieldDecl("ID", "int", <<Src("query", "id")>>, TRUE, FALSE, EmptyStr,
                  <<>>, <<>>) >>]

\* the README's default with a bound rule:
\*   in:"query=page;default=1"   validate:"gt=0"
PagedInputShape ==
    [name |-> "PagedInput",
     fields |-> <<
        FieldDecl("Page", "int", <<Src("query", "page")>>, FALSE, TRUE, S_1,
                  <<Rule("gt", 0)>>, <<>>) >>]

Shapes ==
    {InputShape, BadInputShape, MultiQueryInputShape, FallbackInputShape,
     PagedInputShape}

ShapeOf(name) == CHOOSE s \in Shapes : s.name = name

\* the source kinds the binding library recognises
KnownKinds == {"path", "query", "header", "form", "body"}

\* httpin.New(t) returns an error for a shape with an unrecognised directive
ShapeMalformed(shape) ==
    \E i \in 1..Len(shape.fields) :
        \E j \in 1..Len(shape.fields[i].sources) :
            shape.fields[i].sources[j][1] \notin KnownKinds

NilBody == [nil |-> TRUE, Name |-> EmptyStr]

ZeroOf(type) ==
    CASE type = "int" -> 0
      [] type = "string" -> EmptyStr
      [] type = "strings" -> <<>>
      [] OTHER -> NilBody

FieldNames(shape) == {shape.fields[i].name : i \in 1..Len(shape.fields)}

FieldOf(shape, name) ==
    shape.fields[CHOOSE i \in 1..Len(shape.fields) : shape.fields[i].name = name]

\* var zero T
Zero(shape) == [f \in FieldNames(shape) |-> ZeroOf(FieldOf(shape, f).type)]

----------------------------------------------------------------------------
(* Requests *)

SourceKeys ==
    {Src("path", "id"), Src("query", "page"), Src("query", "tag"),
     Src("query", "token"), Src("query", "id"), Src("header", "X-Token"),
     Src("form", "field")}

\* every key is absent: no values
NoParams == [k \in SourceKeys |-> <<>>]

NoBody == [kind |-> "none", name |-> EmptyStr]
MalformedBody == [kind |-> "malformed", name |-> EmptyStr]
JSONBody(name) == [kind |-> "json", name |-> name]

Request(params, body) == [params |-> params, body |-> body]

\* POST /users/42?page=2, X-Token: secret, {"name":"John"}
ReqOK ==
    Request([NoParams EXCEPT ![Src("path", "id")] = <<S_42>>,
                             ![Src("query", "page")] = <<S_2>>,
                             ![Src("header", "X-Token")] = <<S_secret>>],
            JSONBody(S_John))

\* POST /users/1 with X-Token: alt and {"name":"John"}: a second request that
\* binds and validates, to other values
ReqOther ==
    Request([NoParams EXCEPT ![Src("path", "id")] = <<S_1>>,
                             ![Src("header", "X-Token")] = <<S_alt>>],
            JSONBody(S_John))

\* POST /users/42?page=2&tag=a&tag=b with X-Token: secret and {"name":"John"}:
\* a request that binds and validates as an Input and as a MultiQueryInput
ReqBoth ==
    Request([NoParams EXCEPT ![Src("path", "id")] = <<S_42>>,
                             ![Src("query", "page")] = <<S_2>>,
                             ![Src("query", "tag")] = <<S_a, S_b>>,
                             ![Src("header", "X-Token")] = <<S_secret>>],
            JSONBody(S_John))

\* POST / with X-Token: secret and the body `not json`
ReqNotJSON ==
    Request([NoParams EXCEPT ![Src("header", "X-Token")] = <<S_secret>>],
            MalformedBody)

\* POST / with X-Token: secret and {"name":"Jo"}
ReqShortName ==
    Request([NoParams EXCEPT ![Src("header", "X-Token")] = <<S_secret>>],
            JSONBody(S_Jo))

\* GET / with nothing set
ReqEmpty == Request(NoParams, NoBody)

\* GET /items?tag=a&tag=b&tag=c
ReqTags ==
    Request([NoParams EXCEPT ![Src("query", "tag")] = <<S_a, S_b, S_c>>], NoBody)

\* POST /users/a with X-Token: secret and {"name":"John"}: a path value that
\* is no integer
ReqBadID ==
    Request([NoParams EXCEPT ![Src("path", "id")] = <<S_a>>,
                             ![Src("header", "X-Token")] = <<S_secret>>],
            JSONBody(S_John))

\* GET /?token=&id=42 with X-Token: alt (the query token present and empty)
ReqEmptyToken ==
    Request([NoParams EXCEPT ![Src("query", "token")] = <<EmptyStr>>,
                             ![Src("query", "id")] = <<S_42>>,
                             ![Src("header", "X-Token")] = <<S_alt>>],
            NoBody)

\* GET /items?tag=b&tag=a&tag=b: a value given twice, out of alphabetical order
ReqTagsRepeated ==
    Request([NoParams EXCEPT ![Src("query", "tag")] = <<S_b, S_a, S_b>>], NoBody)

\* POST / with X-Token: secret and {"name":""}: the name breaks both of its
\* rules, required and min=3, and the missing id breaks gt=0
ReqEmptyName ==
    Request([NoParams EXCEPT ![Src("header", "X-Token")] = <<S_secret>>],
            JSONBody(EmptyStr))

\* POST /users/a with X-Token: secret and the body `not json`: two values
\* that cannot be bound
ReqBadIDNotJSON ==
    Request([NoParams EXCEPT ![Src("path", "id")] = <<S_a>>,
                             ![Src("header", "X-Token")] = <<S_secret>>],
            MalformedBody)

ReqSet ==
    {ReqOK, ReqNotJSON, ReqShortName, ReqEmpty, ReqTags, ReqBadID, ReqEmptyToken}

\* requests that break several rules, fail binding twice over, or repeat a key
ValidationRequests == {ReqTagsRepeated, ReqEmptyName, ReqBadIDNotJSON}

----------------------------------------------------------------------------
(* Errors *)

NoErr == [kind |-> "none", field |-> "", violations |-> <<>>]
BindingError(field) == [kind |-> "binding", field |-> field, violations |-> <<>>]
ValidationError(vs) == [kind |-> "validation", field |-> "", violations |-> vs]

\* err.Error(): the textual description of an error
ErrorText(err) ==
    IF err.kind = "validation"
    THEN <<"validation failed", err.violations>>
    ELSE <<"binding failed", err.field>>

----------------------------------------------------------------------------
(* Binding: core.Decode(r) *)

ParamValues(req, src) ==
    IF src \in DOMAIN req.params THEN req.params[src] ELSE <<>>

\* variant: a source whose value is empty is passed over like an absent one
RECURSIVE ResolveSkippingEmpty(_, _)
ResolveSkippingEmpty(sources, req) ==
    IF sources = <<>> THEN <<>>
    ELSE LET got == ParamValues(req, Head(sources))
         IN  IF got # <<>> /\ got[1] # <<>> THEN got
             ELSE ResolveSkippingEmpty(Tail(sources), req)

\* the values of the first declared source that is present in the request
RECURSIVE Resolve(_, _)
Resolve(sources, req) ==
    IF sources = <<>> THEN <<>>
    ELSE LET got == ParamValues(req, Head(sources))
         IN  IF got # <<>> THEN got ELSE Resolve(Tail(sources), req)

\* variant: a sequence field takes the key's first value only
ConvertFirstOnly(type, raw) ==
    CASE type = "int" -> ParseInt(raw[1])
      [] type = "strings" -> [ok |-> TRUE, val |-> <<raw[1]>>]
      [] OTHER -> [ok |-> TRUE, val |-> raw[1]]

\* raw values to the field's declared type
Convert(type, raw) ==
    CASE type = "int" -> ParseInt(raw[1])
      [] type = "strings" -> [ok |-> TRUE, val |-> raw]
      [] OTHER -> [ok |-> TRUE, val |-> raw[1]]

\* variant: the default also replaces a value that is present and empty
RawOrDefaultOnEmpty(fd, got) ==
    IF got # <<>> /\ got[1] # EmptyStr THEN got
    ELSE IF fd.hasDefault THEN <<fd.default>> ELSE <<>>

\* the resolved values or, when no source yields any, the default literal
RawOrDefault(fd, got) ==
    IF got # <<>> THEN got
    ELSE IF fd.hasDefault THEN <<fd.default>> ELSE <<>>

\* One field. eofIsError settles what the body decoder does with an empty
\* body, which the repository does not decide.
DecodeField(fd, req, eofIsError) ==
    IF fd.type = "body"
    THEN CASE req.body.kind = "malformed" -> [ok |-> FALSE, val |-> NilBody]
           [] req.body.kind = "none" -> [ok |-> ~eofIsError, val |-> NilBody]
           [] OTHER -> [ok |-> TRUE,
                        val |-> [nil |-> FALSE, Name |-> req.body.name]]
    ELSE LET raw == RawOrDefault(fd, Resolve(fd.sources, req))
         IN  IF raw = <<>>
             THEN [ok |-> ~fd.required, val |-> ZeroOf(fd.type)]
             ELSE Convert(fd.type, raw)

NoInstance == [none |-> TRUE]
NilInput == [nil |-> TRUE, type |-> "", val |-> NoInstance]
PtrTo(shapeName, inst) == [nil |-> FALSE, type |-> shapeName, val |-> inst]

RECURSIVE DecodeFields(_, _, _, _, _)
DecodeFields(shapeName, fields, req, eofIsError, acc) ==
    IF fields = <<>> THEN [err |-> NoErr, input |-> PtrTo(shapeName, acc)]
    ELSE LET fd == Head(fields)
             got == DecodeField(fd, req, eofIsError)
         IN  IF ~got.ok
             THEN [err |-> BindingError(fd.name), input |-> NilInput]
             ELSE DecodeFields(shapeName, Tail(fields), req, eofIsError,
                               [acc EXCEPT ![fd.name] = got.val])

\* input, err := core.Decode(r)
Decode(shape, req, eofIsError) ==
    DecodeFields(shape.name, shape.fields, req, eofIsError, Zero(shape))

\* the outcomes the body decoder may have on this request
EofChoices(req) == IF req.body.kind = "none" THEN BOOLEAN ELSE {TRUE}

----------------------------------------------------------------------------
(* Validation: v.Struct(input) *)

Violation(field, index, rule) == [field |-> field, index |-> index, rule |-> rule]

RuleViolated(rule, type, val) ==
    CASE rule.name = "required" -> val = ZeroOf(type)
      [] rule.name = "gt" -> val <= rule.arg
      [] rule.name = "min" ->
            IF type = "int" THEN val < rule.arg ELSE Len(val) < rule.arg
      [] OTHER -> FALSE

\* dive,required: every element that is empty
RECURSIVE DiveViolations(_, _, _)
DiveViolations(field, elems, i) ==
    IF i > Len(elems) THEN <<>>
    ELSE (IF elems[i] = EmptyStr THEN <<Violation(field, i, "required")>> ELSE <<>>)
         \o DiveViolations(field, elems, i + 1)

RECURSIVE RuleViolations(_, _, _, _)
RuleViolations(field, rules, type, val) ==
    IF rules = <<>> THEN <<>>
    ELSE LET rule == Head(rules)
             here == IF rule.name = "dive_required"
                     THEN DiveViolations(field, val, 1)
                     ELSE IF RuleViolated(rule, type, val)
                          THEN <<Violation(field, 0, rule.name)>>
                          ELSE <<>>
         IN  here \o RuleViolations(field, Tail(rules), type, val)

\* the rules of one field evaluated in declared order up to the first one
\* violated
RECURSIVE RuleViolationsFirst(_, _, _, _)
RuleViolationsFirst(field, rules, type, val) ==
    IF rules = <<>> THEN <<>>
    ELSE LET rule == Head(rules)
         IN  IF rule.name = "dive_required" THEN DiveViolations(field, val, 1)
             ELSE IF RuleViolated(rule, type, val)
                  THEN <<Violation(field, 0, rule.name)>>
                  ELSE RuleViolationsFirst(field, Tail(rules), type, val)

\* What the engine reports of a field that breaks several of its rules is
\* the engine's matter, which the repository does not decide: every rule
\* broken (every = TRUE), or the first one broken in declared order.
ReportChoices == BOOLEAN

ReportedOf(field, rules, type, val, every) ==
    IF every THEN RuleViolations(field, rules, type, val)
    ELSE RuleViolationsFirst(field, rules, type, val)

FieldViolations(fd, val, every) ==
    ReportedOf(fd.name, fd.rules, fd.type, val, every)
    \o (IF fd.type = "body" /\ ~val.nil
        THEN ReportedOf("Body.Name", fd.nested, "string", val.Name, every)
        ELSE <<>>)

\* variant: the walk over the fields ends at the first field with a violation
RECURSIVE StructViolationsFirstField(_, _, _)
StructViolationsFirstField(fields, inst, every) ==
    IF fields = <<>> THEN <<>>
    ELSE LET here == FieldViolations(Head(fields), inst[Head(fields).name], every)
         IN  IF here # <<>> THEN here
             ELSE StructViolationsFirstField(Tail(fields), inst, every)

RECURSIVE StructViolations(_, _, _)
StructViolations(fields, inst, every) ==
    IF fields = <<>> THEN <<>>
    ELSE FieldViolations(Head(fields), inst[Head(fields).name], every)
         \o StructViolations(Tail(fields), inst, every)

\* err := v.Struct(input)
ValidateStruct(v, input, every) ==
    IF input.nil THEN ValidationError(<<Violation("", 0, "invalid")>>)
    ELSE LET vs == StructViolations(ShapeOf(input.type).fields, input.val, every)
         IN  IF vs = <<>> THEN NoErr ELSE ValidationError(vs)

----------------------------------------------------------------------------
(* The request's context and the result accessor *)

\* the single context key, httpin.Input
InputKey == "httpin.Input"

\* r.Context() of an incoming request
Background == <<>>

\* context.WithValue(parent, key, val)
WithValue(ctx, key, val) == Append(ctx, [key |-> key, val |-> val])

\* ctx.Value(key): the innermost value stored under key, or nil
Value(ctx, key) ==
    LET at == {i \in 1..Len(ctx) : ctx[i].key = key}
    IN  IF at = {} THEN NilInput
        ELSE ctx[CHOOSE i \in at : \A j \in at : j <= i].val

\* variant: the stored pointer is used without checking what it points to
AssertedAnyPointer(shapeName, v) == ~v.nil

\* v, ok := r.Context().Value(httpin.Input).(*T)
AssertedOK(shapeName, v) == ~v.nil /\ v.type = shapeName

\* variant: Get takes the value out, leaving the context without it
AfterGetTaken(ctx) == Background

\* the request's context after a call of Get: Get assigns nothing
AfterGet(ctx) == ctx

\* func Get[T any](r *http.Request) T
Get(shapeName, ctx) ==
    LET v == Value(ctx, InputKey)
    IN  IF ~AssertedOK(shapeName, v) THEN Zero(ShapeOf(shapeName)) ELSE v.val

----------------------------------------------------------------------------
(* Handlers, validators, options *)

\* a nil func value / nil pointer
Nil == "nil"

\* the built-in handler: http.Error(w, err.Error(), http.StatusBadRequest)
BuiltinErrorHandler == "builtin"
\* handlers passed to SetErrorHandler (callable ones: none of them is nil)
GlobalHandlers == {"g1", "g2"}
\* handlers passed to WithErrorHandler
OverrideHandlers == {"o1", "o2"}
\* WithErrorHandler(h) for each h it may be given, nil among them
OptionArgs == OverrideHandlers \cup {Nil}

\* validator.New()
BuiltinValidator == "validator.New"
\* validators passed to SetValidator
CustomValidators == {"v1"}

\* variant: the built-in handler writes the status and no body
HandlerResponseStatusOnly(h, err) ==
    IF h = BuiltinErrorHandler
    THEN [status |-> StatusBadRequest, body |-> <<>>]
    ELSE [status |-> StatusTeapot, body |-> <<>>]

\* what a handler writes to the response
HandlerResponse(h, err) ==
    IF h = BuiltinErrorHandler
    THEN [status |-> StatusBadRequest, body |-> ErrorText(err)]
    ELSE [status |-> StatusTeapot, body |-> <<>>]

NoResponse == [status |-> 0, body |-> <<>>]

\* WithErrorHandler(h): func(o *options) { o.errorHandler = h }
WithErrorHandler(h, o) == [o EXCEPT !.errorHandler = h]

\* o := &options{errorHandler: nil}; for _, opt := range opts { opt(o) }
RECURSIVE ApplyOptions(_, _)
ApplyOptions(opts, o) ==
    IF opts = <<>> THEN o
    ELSE ApplyOptions(Tail(opts), WithErrorHandler(Head(opts), o))

NewOptions(opts) == ApplyOptions(opts, [errorHandler |-> Nil])

\* the option lists given to Middleware: each element is WithErrorHandler(h)
OptionLists ==
    {opts \in {<<>>, <<"o1">>, <<Nil>>, <<"o1", "o2">>, <<"o1", Nil>>} :
        \A i \in DOMAIN opts : opts[i] \in OptionArgs}

----------------------------------------------------------------------------
(* State *)

VARIABLES
    defaultErrorHandler,  \* the registry's error handler
    defaultValidator,     \* the registry's validator
    mu,                   \* the RWMutex: who holds it for writing, for reading
    ehLog,                \* history: the values written to defaultErrorHandler
    vLog,                 \* history: the values written to defaultValidator
    nsets,                \* history: the Set* calls started
    caller,               \* configuration callers, each inside a Set* call or not
    pipes,                \* the middlewares constructed
    rq                    \* request tasks

vars == <<defaultErrorHandler, defaultValidator, mu, ehLog, vLog, nsets,
          caller, pipes, rq>>

\* request tasks; the first alone is served where every shape and request is tried
Requests == {"r1", "r2"}
Solo == {"r1"}
\* configuration callers
Callers == {"c1", "c2"}
\* the places a constructed middleware can be held in
PipeIds == {"p1", "p2"}
\* a route with no middleware
Bare == "bare"

NoPipe ==
    [state |-> "none", shape |-> "", errorHandler |-> Nil, builtAt |-> 0,
     builtAtV |-> 0]

IdleCaller == [pc |-> "idle", what |-> "", val |-> Nil]

\* no call of Get made
NoGot == [type |-> "", val |-> NoInstance]

IdleRequest ==
    [pc |-> "idle", pipe |-> Bare, req |-> ReqEmpty, ctx |-> Background,
     input |-> NilInput, err |-> NoErr, v |-> Nil, handler |-> Nil,
     vSeen |-> 0, vIdx |-> 0, ehSeen |-> 0, ehIdx |-> 0,
     validations |-> 0, nextCalls |-> 0, handlerCtx |-> Background,
     errCalls |-> <<>>, w |-> NoResponse,
     got |-> NoGot, again |-> NoGot,
     outer |-> Bare, outerInput |-> NilInput]

Init ==
    /\ defaultErrorHandler = BuiltinErrorHandler
    /\ defaultValidator = BuiltinValidator
    /\ mu = [writers |-> {}, readers |-> {}]
    /\ ehLog = <<>>
    /\ vLog = <<>>
    /\ nsets = 0
    /\ caller = [c \in Callers |-> IdleCaller]
    /\ pipes = [p \in PipeIds |-> NoPipe]
    /\ rq = [r \in Requests |-> IdleRequest]

----------------------------------------------------------------------------
(* The registry: SetErrorHandler, SetValidator, getErrorHandler,           *)
(* getValidator                                                            *)

\* variant: the writer waits for other writers only, as under mu.RLock()
CanLockAmongReaders(m) == m.writers = {}

\* mu.Lock() returns once no one holds the mutex
CanLock(m) == m.writers = {} /\ m.readers = {}

\* mu.RLock() returns once no writer holds the mutex
CanRLock(m) == m.writers = {}

InWrite(c) == caller[c].pc \in {"locked", "written"}

\* The values a read of a registry variable may return. A read that runs
\* while a Set* call is between Lock and Unlock is a data race: it returns
\* the old value or a value being written.
ReadOutcomes(what, cur) ==
    {cur} \cup {caller[c].val : c \in {d \in Callers : InWrite(d) /\ caller[d].what = what}}

\* mu.Lock() of SetErrorHandler(h) / SetValidator(v)
SetLock(c, what, val) ==
    /\ caller[c].pc = "idle"
    /\ nsets < MaxSets
    /\ CanLock(mu)
    /\ mu' = [mu EXCEPT !.writers = @ \cup {c}]
    /\ caller' = [caller EXCEPT ![c] = [pc |-> "locked", what |-> what, val |-> val]]
    /\ nsets' = nsets + 1
    /\ UNCHANGED <<defaultErrorHandler, defaultValidator, ehLog, vLog, pipes, rq>>

\* defaultErrorHandler = h
SetErrorHandlerWrite(c) ==
    /\ caller[c].pc = "locked"
    /\ caller[c].what = "eh"
    /\ defaultErrorHandler' = caller[c].val
    /\ ehLog' = Append(ehLog, caller[c].val)
    /\ caller' = [caller EXCEPT ![c].pc = "written"]
    /\ UNCHANGED <<defaultValidator, mu, vLog, nsets, pipes, rq>>

\* defaultValidator = v
SetValidatorWrite(c) ==
    /\ caller[c].pc = "locked"
    /\ caller[c].what = "v"
    /\ defaultValidator' = caller[c].val
    /\ vLog' = Append(vLog, caller[c].val)
    /\ caller' = [caller EXCEPT ![c].pc = "written"]
    /\ UNCHANGED <<defaultErrorHandler, mu, ehLog, nsets, pipes, rq>>

\* defer mu.Unlock()
SetUnlock(c) ==
    /\ caller[c].pc = "written"
    /\ mu' = [mu EXCEPT !.writers = @ \ {c}]
    /\ caller' = [caller EXCEPT ![c] = IdleCaller]
    /\ UNCHANGED <<defaultErrorHandler, defaultValidator, ehLog, vLog, nsets,
                   pipes, rq>>

\* the writes to a registry variable whose Set* call has returned
Completed(what, log) ==
    Len(log) - Cardinality({c \in Callers : caller[c].pc = "written" /\ caller[c].what = what})

\* mu.RLock() of getErrorHandler / getValidator
RLock(r, at, next) ==
    /\ rq[r].pc = at
    /\ CanRLock(mu)
    /\ mu' = [mu EXCEPT !.readers = @ \cup {r}]
    /\ rq' = [rq EXCEPT ![r].pc = next]
    /\ UNCHANGED <<defaultErrorHandler, defaultValidator, ehLog, vLog, nsets,
                   caller, pipes>>

\* defer mu.RUnlock()
RUnlock(r, at, next) ==
    /\ rq[r].pc = at
    /\ mu' = [mu EXCEPT !.readers = @ \ {r}]
    /\ rq' = [rq EXCEPT ![r].pc = next]
    /\ UNCHANGED <<defaultErrorHandler, defaultValidator, ehLog, vLog, nsets,
                   caller, pipes>>

getErrorHandlerRLock(r) == RLock(r, "getErrorHandler", "eh_read")

\* the value a registry variable held after its first n writes
LatestAt(initial, log, n) == IF n = 0 THEN initial ELSE log[n]

\* variant: the handler is the one the registry held when the middleware was
\* constructed
getErrorHandlerReadCaptured(r) ==
    /\ rq[r].pc = "eh_read"
    /\ rq' = [rq EXCEPT ![r].handler = LatestAt(BuiltinErrorHandler, ehLog,
                                                pipes[rq[r].pipe].builtAt),
                        ![r].ehIdx = Len(ehLog),
                        ![r].pc = "eh_runlock"]
    /\ UNCHANGED <<defaultErrorHandler, defaultValidator, mu, ehLog, vLog, nsets,
                   caller, pipes>>

\* return defaultErrorHandler
getErrorHandlerRead(r) ==
    /\ rq[r].pc = "eh_read"
    /\ \E h \in ReadOutcomes("eh", defaultErrorHandler) :
          rq' = [rq EXCEPT ![r].handler = h, ![r].ehIdx = Len(ehLog),
                           ![r].pc = "eh_runlock"]
    /\ UNCHANGED <<defaultErrorHandler, defaultValidator, mu, ehLog, vLog, nsets,
                   caller, pipes>>

getErrorHandlerRUnlock(r) == RUnlock(r, "eh_runlock", "call")

getValidatorRLock(r) == RLock(r, "getValidator", "v_read")

\* variant: the validator is the one the registry held when the middleware was
\* constructed
getValidatorReadCaptured(r) ==
    /\ rq[r].pc = "v_read"
    /\ rq' = [rq EXCEPT ![r].v = LatestAt(BuiltinValidator, vLog,
                                          pipes[rq[r].pipe].builtAtV),
                        ![r].vIdx = Len(vLog),
                        ![r].pc = "v_runlock"]
    /\ UNCHANGED <<defaultErrorHandler, defaultValidator, mu, ehLog, vLog, nsets,
                   caller, pipes>>

\* return defaultValidator
getValidatorRead(r) ==
    /\ rq[r].pc = "v_read"
    /\ \E v \in ReadOutcomes("v", defaultValidator) :
          rq' = [rq EXCEPT ![r].v = v, ![r].vIdx = Len(vLog),
                           ![r].pc = "v_runlock"]
    /\ UNCHANGED <<defaultErrorHandler, defaultValidator, mu, ehLog, vLog, nsets,
                   caller, pipes>>

getValidatorRUnlock(r) == RUnlock(r, "v_runlock", "validate")

----------------------------------------------------------------------------
(* Middleware[T](opts...): construction *)

\* variant: the error of httpin.New is dropped
NewCoreNeverFails(shape) == FALSE

\* core, err := httpin.New(t); err != nil
NewCoreFails(shape) == ShapeMalformed(shape)

\* what Middleware[T](opts...) leaves behind: a panic and no wrapper, or the
\* wrapper closing over core (the shape) and o; builtAt and builtAtV are
\* history: the writes to defaultErrorHandler and to defaultValidator made
\* before the construction
Constructed(shape, opts) ==
    IF NewCoreFails(shape)
    THEN [state |-> "panicked", shape |-> shape.name, errorHandler |-> Nil,
          builtAt |-> 0, builtAtV |-> 0]
    ELSE [state |-> "built", shape |-> shape.name,
          errorHandler |-> NewOptions(opts).errorHandler,
          builtAt |-> Len(ehLog), builtAtV |-> Len(vLog)]

Middleware(p, shape, opts) ==
    /\ pipes[p].state = "none"
    /\ pipes' = [pipes EXCEPT ![p] = Constructed(shape, opts)]
    /\ UNCHANGED <<defaultErrorHandler, defaultValidator, mu, ehLog, vLog, nsets,
                   caller, rq>>

Built == {p \in PipeIds : pipes[p].state = "built"}

----------------------------------------------------------------------------
(* The wrapper: one request through the pipeline *)

RegistryUnchanged ==
    UNCHANGED <<defaultErrorHandler, defaultValidator, mu, ehLog, vLog, nsets,
                caller, pipes>>

\* a request arrives at a route wrapped by pipeline p
Serve(r, p, req) ==
    /\ rq[r].pc = "idle"
    /\ p \in Built
    /\ rq' = [rq EXCEPT ![r].pc = "decode", ![r].pipe = p, ![r].req = req]
    /\ RegistryUnchanged

\* a request arrives at a route with no middleware: the handler runs directly
ServeBare(r, req) ==
    /\ rq[r].pc = "idle"
    /\ rq' = [rq EXCEPT ![r].pc = "handler", ![r].req = req,
                        ![r].handlerCtx = rq[r].ctx]
    /\ RegistryUnchanged

\* variant: the decode error is not checked and the wrapper goes on
AfterDecodeFallsThrough(err) == "getValidator"

\* if err != nil { handleError(w, r, o, err); return }
AfterDecode(err) == IF err # NoErr THEN "handleError" ELSE "getValidator"

\* input, err := core.Decode(r)
DecodeStep(r) ==
    /\ rq[r].pc = "decode"
    /\ \E eofIsError \in EofChoices(rq[r].req) :
          LET res == Decode(ShapeOf(pipes[rq[r].pipe].shape), rq[r].req, eofIsError)
          IN  rq' = [rq EXCEPT ![r].input = res.input, ![r].err = res.err,
                               ![r].vSeen = Completed("v", vLog),
                               ![r].pc = AfterDecode(res.err)]
    /\ RegistryUnchanged

\* variant: the validation error is not checked and the wrapper goes on
AfterValidateFallsThrough(err) == "dispatch"

\* if err := v.Struct(input); err != nil { handleError(w, r, o, err); return }
AfterValidate(err) == IF err # NoErr THEN "handleError" ELSE "dispatch"

\* err := v.Struct(input)
ValidateStep(r) ==
    /\ rq[r].pc = "validate"
    /\ \E every \in ReportChoices :
          LET err == ValidateStruct(rq[r].v, rq[r].input, every)
          IN  rq' = [rq EXCEPT ![r].err = err, ![r].validations = @ + 1,
                               ![r].pc = AfterValidate(err)]
    /\ RegistryUnchanged

\* variant: the input is stored under a key Get does not read
AttachUnderOtherKey(ctx, input) == WithValue(ctx, "valmid.input", input)

\* ctx := context.WithValue(r.Context(), httpin.Input, input)
Attach(ctx, input) == WithValue(ctx, InputKey, input)

\* variant: input is one variable of the middleware, shared by the requests
\* it serves, and holds what another request decoded
InputOfShared(r) ==
    LET others == {q \in Requests \ {r} :
                      rq[q].pipe = rq[r].pipe /\ ~rq[q].input.nil}
    IN  IF others = {} THEN rq[r].input
        ELSE rq[CHOOSE q \in others : TRUE].input

\* input is a variable of the wrapper's invocation: input, err := core.Decode(r)
InputOf(r) == rq[r].input

\* next.ServeHTTP(w, r.WithContext(ctx))
Dispatch(r) ==
    /\ rq[r].pc = "dispatch"
    /\ rq' = [rq EXCEPT ![r].handlerCtx = Attach(rq[r].ctx, InputOf(r)),
                        ![r].nextCalls = @ + 1, ![r].pc = "handler"]
    /\ RegistryUnchanged

\* next is itself the wrapper of another middleware, p: the request it is
\* given, r.WithContext(ctx), is the incoming request of p's wrapper. outer
\* and outerInput are history: the middleware passed and what it attached.
ServeInner(r, p) ==
    /\ rq[r].pc = "handler"
    /\ rq[r].pipe # Bare
    /\ rq[r].outer = Bare
    /\ p \in Built \ {rq[r].pipe}
    /\ rq' = [rq EXCEPT ![r].outer = rq[r].pipe,
                        ![r].outerInput = rq[r].input,
                        ![r].ctx = rq[r].handlerCtx,
                        ![r].pipe = p,
                        ![r].input = NilInput,
                        ![r].v = Nil,
                        ![r].pc = "decode"]
    /\ RegistryUnchanged

\* the downstream handler reads the input: valmid.Get[T](r)
Handler(r, shapeName) ==
    /\ rq[r].pc = "handler"
    /\ rq' = [rq EXCEPT ![r].got = [type |-> shapeName,
                                    val |-> Get(shapeName, rq[r].handlerCtx)],
                        ![r].handlerCtx = AfterGet(@),
                        ![r].pc = "done"]
    /\ RegistryUnchanged

\* the handler reads the input once more, as the same T
HandlerAgain(r) ==
    /\ rq[r].pc = "done"
    /\ rq[r].again = NoGot
    /\ rq' = [rq EXCEPT ![r].again = [type |-> rq[r].got.type,
                                      val |-> Get(rq[r].got.type, rq[r].handlerCtx)],
                        ![r].handlerCtx = AfterGet(@)]
    /\ RegistryUnchanged

\* variant: the registry's handler is taken whatever the options say
UsesRegistryAlways(o) == TRUE

\* handler := o.errorHandler; if handler == nil { handler = getErrorHandler() }
UsesRegistry(o) == o.errorHandler = Nil

handleError(r) ==
    /\ rq[r].pc = "handleError"
    /\ rq' = [rq EXCEPT ![r].handler = pipes[rq[r].pipe].errorHandler,
                        ![r].ehSeen = Completed("eh", ehLog),
                        ![r].pc = IF UsesRegistry(pipes[rq[r].pipe])
                                  THEN "getErrorHandler" ELSE "call"]
    /\ RegistryUnchanged

\* variant: the return after handleError is missing and the wrapper goes on
AfterHandleErrorGoesOn(err) ==
    IF err.kind = "binding" THEN "getValidator" ELSE "dispatch"

\* handleError(w, r, o, err); return
AfterHandleError(err) == "failed"

\* handler(w, r, err); calling a nil func value panics: no handler runs,
\* nothing is written, and the wrapper ends there
CallHandler(r) ==
    /\ rq[r].pc = "call"
    /\ rq' = IF rq[r].handler = Nil
             THEN [rq EXCEPT ![r].pc = "faulted"]
             ELSE [rq EXCEPT ![r].errCalls = Append(@, [h |-> rq[r].handler,
                                                        err |-> rq[r].err]),
                             ![r].w = HandlerResponse(rq[r].handler, rq[r].err),
                             ![r].pc = AfterHandleError(rq[r].err)]
    /\ RegistryUnchanged

----------------------------------------------------------------------------

ValidShapeNames == {s.name : s \in {t \in Shapes : ~ShapeMalformed(t)}}

\* One step of a configuration caller of C.
RegistryStep(C) ==
    \/ \E c \in C, h \in GlobalHandlers : SetLock(c, "eh", h)
    \/ \E c \in C, v \in CustomValidators : SetLock(c, "v", v)
    \/ \E c \in C : SetErrorHandlerWrite(c)
    \/ \E c \in C : SetValidatorWrite(c)
    \/ \E c \in C : SetUnlock(c)

\* One step of a construction or of a request task: request tasks R,
\* middlewares P constructed from the shapes S and the option lists O,
\* requests Q arriving, handlers reading the input as one of the shapes T.
PipelineStep(R, P, S, O, Q, T) ==
    \/ \E p \in P, s \in S, opts \in O : Middleware(p, s, opts)
    \/ \E r \in R, p \in P, req \in Q : Serve(r, p, req)
    \/ \E r \in R : DecodeStep(r)
    \/ \E r \in R : getValidatorRLock(r)
    \/ \E r \in R : getValidatorRead(r)
    \/ \E r \in R : getValidatorRUnlock(r)
    \/ \E r \in R : ValidateStep(r)
    \/ \E r \in R : Dispatch(r)
    \/ \E r \in R, s \in T : Handler(r, s)
    \/ \E r \in R : handleError(r)
    \/ \E r \in R : getErrorHandlerRLock(r)
    \/ \E r \in R : getErrorHandlerRead(r)
    \/ \E r \in R : getErrorHandlerRUnlock(r)
    \/ \E r \in R : CallHandler(r)

\* the shapes of the tests and the README's fallback declarations
SpecShapes == Shapes \ {PagedInputShape}

\* Every such shape, option list and request, one request task at a time.
Next ==
    \/ RegistryStep(Callers)
    \/ PipelineStep(Solo, {"p1"}, SpecShapes, OptionLists, ReqSet,
                    {s.name : s \in SpecShapes} \cap ValidShapeNames)
    \/ \E r \in Solo, req \in ReqSet : ServeBare(r, req)

Spec == Init /\ [][Next]_vars

\* Concurrent request tasks through pipelines of the tests' Input shape.
NextConc ==
    \/ RegistryStep(Callers)
    \/ PipelineStep(Requests, {"p1"}, {InputShape}, {<<>>},
                    {ReqOK, ReqNotJSON, ReqShortName}, {"Input"})

SpecConc == Init /\ [][NextConc]_vars

\* Binding, validation and the handler alone: one request task, the registry
\* left as it starts, every shape, requests that give each declared source no
\* value, an empty value or a value, and a handler that reads its input twice.
FallbackRequests ==
    {Request([NoParams EXCEPT ![Src("query", "token")] = qt,
                              ![Src("header", "X-Token")] = ht,
                              ![Src("query", "id")] = id],
             NoBody) :
        qt \in {<<>>, <<EmptyStr>>, <<S_a>>},
        ht \in {<<>>, <<EmptyStr>>, <<S_alt>>},
        id \in {<<>>, <<EmptyStr>>, <<S_a>>, <<S_42>>}}

\* the page key absent, empty, no integer, and an integer within and outside
\* the bound of gt=0
PagedRequests ==
    {Request([NoParams EXCEPT ![Src("query", "page")] = pg], NoBody) :
        pg \in {<<>>, <<EmptyStr>>, <<S_a>>, <<S_0>>, <<S_2>>}}

NextDecode ==
    \/ PipelineStep(Solo, {"p1"}, Shapes, {<<>>},
                    FallbackRequests \cup PagedRequests \cup ReqSet
                        \cup ValidationRequests,
                    ValidShapeNames)
    \/ \E r \in Solo : HandlerAgain(r)
    \/ \E r \in Solo, req \in ReqSet : ServeBare(r, req)

SpecDecode == Init /\ [][NextDecode]_vars

\* One request task through a middleware of the tests' Input shape, with and
\* without an override, while the registry is being set; every task that can
\* take a step eventually takes one.
NextLive ==
    \/ RegistryStep(Callers)
    \/ PipelineStep(Solo, {"p1"}, {InputShape}, {<<>>, <<"o1">>},
                    {ReqOK, ReqNotJSON, ReqShortName}, {"Input"})

\* the steps of the wrapper serving r, from decoding to the handler invoked
WrapperStep(r) ==
    \/ DecodeStep(r)
    \/ getValidatorRLock(r) \/ getValidatorRead(r) \/ getValidatorRUnlock(r)
    \/ ValidateStep(r)
    \/ Dispatch(r)
    \/ handleError(r)
    \/ getErrorHandlerRLock(r) \/ getErrorHandlerRead(r)
    \/ getErrorHandlerRUnlock(r)
    \/ CallHandler(r)

\* a Set* call that holds the lock goes on to its write and its Unlock
SetReturns(c) ==
    SetErrorHandlerWrite(c) \/ SetValidatorWrite(c) \/ SetUnlock(c)

\* goroutines that can run are run; a reader waits for the writers only, and
\* the Set* calls made are finitely many
Fairness ==
    /\ \A r \in Solo : WF_vars(WrapperStep(r))
    /\ \A c \in Callers : WF_vars(SetReturns(c))

\* Two request tasks through one middleware of the tests' Input shape, on
\* requests that bind to different instances and one that fails.
NextShared ==
    PipelineStep(Requests, {"p1"}, {InputShape}, {<<>>},
                 {ReqOK, ReqOther, ReqShortName}, {"Input"})

SpecShared == Init /\ [][NextShared]_vars

\* One request through a middleware whose next handler is the wrapper of a
\* second middleware, the two constructed for the tests' shapes.
NextChain ==
    \/ PipelineStep(Solo, PipeIds, {InputShape, MultiQueryInputShape}, {<<>>},
                    {ReqBoth, ReqOK, ReqTags}, {"Input", "MultiQueryInput"})
    \/ \E r \in Solo, p \in PipeIds : ServeInner(r, p)

SpecChain == Init /\ [][NextChain]_vars

\* As Spec for the tests' Input shape, with SetErrorHandler also given nil.
NextNil ==
    \/ RegistryStep(Callers)
    \/ \E c \in Callers : SetLock(c, "eh", Nil)
    \/ PipelineStep(Solo, {"p1"}, {InputShape}, OptionLists,
                    {ReqOK, ReqNotJSON, ReqShortName}, {"Input"})

SpecNil == Init /\ [][NextNil]_vars

SpecLive == Init /\ [][NextLive]_vars /\ Fairness

----------------------------------------------------------------------------
(* Properties *)

Piped(r) == rq[r].pipe # Bare

ShapeAt(r) == ShapeOf(pipes[rq[r].pipe].shape)

\* what core.Decode may return for the request task r is serving
DecodeResults(r) ==
    {Decode(ShapeAt(r), rq[r].req, e) : e \in EofChoices(rq[r].req)}

Range(f) == {f[i] : i \in DOMAIN f}

\* the handlers that can be active for r: the override or, without one, a
\* value the registry has held
ActiveHandlers(r) ==
    IF pipes[rq[r].pipe].errorHandler # Nil
    THEN {pipes[rq[r].pipe].errorHandler}
    ELSE {BuiltinErrorHandler} \cup Range(ehLog)

ErrorPath ==
    {"handleError", "getErrorHandler", "eh_read", "eh_runlock", "call", "failed"}

\* the error handler has been invoked once, with err, and nothing else was
InvokedOnceWith(r, err) ==
    /\ Len(rq[r].errCalls) = 1
    /\ rq[r].errCalls[1].err = err
    /\ rq[r].errCalls[1].h \in ActiveHandlers(r)

\* C1: when decoding returns a Binding Error, the request stays on the error
\* path: the next handler is never invoked, validation is never run, and once
\* the request has failed the active error handler has been invoked exactly
\* once, with the Binding Error decoding returned (and never before that).
C1_BindingErrorStops ==
    \A r \in Requests :
        (Piped(r) /\ rq[r].err.kind = "binding") =>
            /\ rq[r].pc \in ErrorPath
            /\ rq[r].err \in {d.err : d \in DecodeResults(r)}
            /\ rq[r].nextCalls = 0
            /\ rq[r].validations = 0
            /\ rq[r].handlerCtx = Background
            /\ IF rq[r].pc = "failed" THEN InvokedOnceWith(r, rq[r].err)
               ELSE rq[r].errCalls = <<>>

C1_Witness ==
    \E r \in Requests :
        /\ Piped(r) /\ rq[r].pc = "failed" /\ rq[r].req = ReqNotJSON
        /\ rq[r].errCalls = <<[h |-> BuiltinErrorHandler,
                               err |-> BindingError("Body")]>>

\* C2: when decoding succeeds and the instance violates a rule, the request
\* stays on the error path: the next handler is never invoked, nothing is
\* attached to a context handed downstream, and once the request has failed
\* the active error handler has been invoked exactly once, with the
\* Validation Error of that instance.
C2_ValidationErrorStops ==
    \A r \in Requests :
        (Piped(r) /\ rq[r].err.kind = "validation") =>
            /\ rq[r].pc \in ErrorPath
            /\ \E d \in DecodeResults(r) : d.err = NoErr /\ d.input = rq[r].input
            /\ StructViolations(ShapeAt(r).fields, rq[r].input.val, TRUE) # <<>>
            /\ \E every \in ReportChoices :
                  rq[r].err =
                      ValidationError(StructViolations(ShapeAt(r).fields,
                                                       rq[r].input.val, every))
            /\ rq[r].validations = 1
            /\ rq[r].nextCalls = 0
            /\ Value(rq[r].handlerCtx, InputKey).nil
            /\ IF rq[r].pc = "failed" THEN InvokedOnceWith(r, rq[r].err)
               ELSE rq[r].errCalls = <<>>

C2_Witness ==
    \E r \in Requests :
        /\ Piped(r) /\ rq[r].pc = "failed" /\ rq[r].req = ReqShortName
        /\ rq[r].err.kind = "validation"
        /\ Len(rq[r].errCalls) = 1
        /\ rq[r].nextCalls = 0

\* the instance of the documented end-to-end request
ExpectedOK ==
    [ID |-> 42, Page |-> 2, Token |-> S_secret,
     Body |-> [nil |-> FALSE, Name |-> S_John], Field |-> EmptyStr]

\* C3: when decoding and validation both succeed, the next handler is invoked
\* (once) with a request on which Get[T] returns the instance decoding
\* produced for that request, field for field; for the documented request it
\* is ID=42, Page=2, Token="secret", Body.Name="John".
C3_GetReturnsAssembled ==
    \A r \in Requests :
        (Piped(r) /\ rq[r].pc \in {"handler", "done"}) =>
            /\ rq[r].nextCalls = 1
            /\ rq[r].errCalls = <<>>
            /\ \E d \in DecodeResults(r) :
                  /\ d.err = NoErr
                  /\ \A every \in ReportChoices :
                        ValidateStruct(rq[r].v, d.input, every) = NoErr
                  /\ Get(ShapeAt(r).name, rq[r].handlerCtx) = d.input.val
                  /\ (rq[r].pc = "done" /\ rq[r].got.type = ShapeAt(r).name)
                        => rq[r].got.val = d.input.val
            /\ (rq[r].req = ReqOK /\ ShapeAt(r) = InputShape)
                  => Get("Input", rq[r].handlerCtx) = ExpectedOK

C3_Witness ==
    \E r \in Requests :
        /\ Piped(r) /\ rq[r].pc = "done" /\ rq[r].req = ReqOK
        /\ ShapeAt(r) = InputShape
        /\ rq[r].got = [type |-> "Input", val |-> ExpectedOK]

HasOverride(r) == pipes[rq[r].pipe].errorHandler # Nil

RegistryReadPcs == {"getErrorHandler", "eh_read", "eh_runlock"}

\* C4: a request through a middleware built with an override never reads the
\* registry's error handler; every invocation of an error handler for it is
\* an invocation of the override, which is none of the handlers the registry
\* holds or has held, whatever SetErrorHandler calls were made and when.
C4_OverrideWins ==
    \A r \in Requests :
        (Piped(r) /\ HasOverride(r)) =>
            /\ rq[r].pc \notin RegistryReadPcs
            /\ \A i \in DOMAIN rq[r].errCalls :
                  /\ rq[r].errCalls[i].h = pipes[rq[r].pipe].errorHandler
                  /\ rq[r].errCalls[i].h
                        \notin {BuiltinErrorHandler, defaultErrorHandler} \cup Range(ehLog)
            /\ rq[r].pc = "failed" => Len(rq[r].errCalls) = 1

\* a failure under an override, with one SetErrorHandler made before the
\* construction and one after it
C4_Witness ==
    \E r \in Requests :
        /\ Piped(r) /\ rq[r].pc = "failed"
        /\ pipes[rq[r].pipe].errorHandler = "o1"
        /\ pipes[rq[r].pipe].builtAt = 1
        /\ Len(ehLog) = 2
        /\ rq[r].errCalls[1].h = "o1"

\* C5: without an override the handler invoked is the registry's value when
\* the request resolves its handler: the value of the latest write, which is
\* no older than any SetErrorHandler completed when the failure began; so a
\* SetErrorHandler completed after the construction and before the
\* resolution is the one invoked, and it is the only handler invoked.
C5_RegistryAtFailure ==
    \A r \in Requests :
        (Piped(r) /\ ~HasOverride(r) /\ rq[r].pc \in {"eh_runlock", "call", "failed"}) =>
            /\ rq[r].handler = LatestAt(BuiltinErrorHandler, ehLog, rq[r].ehIdx)
            /\ rq[r].ehIdx >= rq[r].ehSeen
            /\ rq[r].ehIdx > pipes[rq[r].pipe].builtAt
                  => rq[r].handler = ehLog[rq[r].ehIdx]
            /\ rq[r].pc = "failed" =>
                  /\ Len(rq[r].errCalls) = 1
                  /\ rq[r].errCalls[1].h = rq[r].handler

\* built while the registry held g1; g2 set afterwards; g2 invoked
C5_Witness ==
    \E r \in Requests :
        /\ Piped(r) /\ ~HasOverride(r) /\ rq[r].pc = "failed"
        /\ pipes[rq[r].pipe].builtAt = 1
        /\ ehLog = <<"g1", "g2">>
        /\ rq[r].ehIdx = 2
        /\ rq[r].errCalls[1].h = "g2"

\* C6: a construction for a malformed shape panics and leaves no wrapper, and
\* only for a malformed shape; so no request is ever inside a middleware of
\* a malformed shape, and every error an error handler receives is a
\* Binding or a Validation Error.
C6_MalformedShapePanics ==
    /\ \A p \in PipeIds :
          pipes[p].state # "none" =>
              (pipes[p].state = "panicked" <=> ShapeMalformed(ShapeOf(pipes[p].shape)))
    /\ \A r \in Requests :
          /\ Piped(r) =>
                (pipes[rq[r].pipe].state = "built" /\ ~ShapeMalformed(ShapeAt(r)))
          /\ \A i \in DOMAIN rq[r].errCalls :
                rq[r].errCalls[i].err.kind \in {"binding", "validation"}

C6_Witness ==
    /\ pipes["p1"] = [state |-> "panicked", shape |-> "BadInput",
                      errorHandler |-> Nil, builtAt |-> 0, builtAtV |-> 0]
    /\ \A r \in Requests : ~Piped(r)

\* C7: in a handler whose request carries no instance of shape T (no
\* middleware ran, or the one that ran was for another shape), Get[T]
\* returns the zero value of T.
C7_GetZeroWhenAbsent ==
    \A r \in Requests :
        (rq[r].pc = "done" /\ (~Piped(r) \/ pipes[rq[r].pipe].shape # rq[r].got.type)) =>
            rq[r].got.val = Zero(ShapeOf(rq[r].got.type))

\* the Input middleware ran on the documented request and the handler asks
\* for a MultiQueryInput
C7_Witness ==
    \E r \in Requests :
        /\ rq[r].pc = "done" /\ Piped(r) /\ rq[r].req = ReqOK
        /\ pipes[rq[r].pipe].shape = "Input"
        /\ Value(rq[r].handlerCtx, InputKey).val = ExpectedOK
        /\ rq[r].got = [type |-> "MultiQueryInput", val |-> [Tags |-> <<>>]]

InRead(r) == rq[r].pc \in {"eh_read", "eh_runlock", "v_read", "v_runlock"}

\* the arguments of the Set* calls on a registry variable that have returned
CompletedArgs(what, log) == {log[i] : i \in 1..Completed(what, log)}

\* C8: no write section overlaps a read section or another write section;
\* every value read from the registry is the initial one or the argument of
\* a completed Set call; and it is the value of the latest write, which is no
\* older than any write completed when the read began.
C8_RegistryReadsAndWrites ==
    /\ \A c \in Callers :
          InWrite(c) =>
              /\ \A r \in Requests : ~InRead(r)
              /\ \A d \in Callers \ {c} : ~InWrite(d)
    /\ \A r \in Requests :
          /\ (Piped(r) /\ ~HasOverride(r) /\ rq[r].pc \in {"eh_runlock", "call", "failed"}) =>
                /\ rq[r].handler \in {BuiltinErrorHandler} \cup CompletedArgs("eh", ehLog)
                /\ rq[r].handler = LatestAt(BuiltinErrorHandler, ehLog, rq[r].ehIdx)
                /\ rq[r].ehIdx >= rq[r].ehSeen
          /\ rq[r].v # Nil =>
                /\ rq[r].v \in {BuiltinValidator} \cup CompletedArgs("v", vLog)
                /\ rq[r].v = LatestAt(BuiltinValidator, vLog, rq[r].vIdx)
                /\ rq[r].vIdx >= rq[r].vSeen

\* two readers inside their read sections at once, one of them having read
\* the second of two writes
C8_Witness ==
    /\ rq["r1"].pc = "eh_runlock" /\ rq["r1"].handler = "g2"
    /\ ehLog = <<"g1", "g2">>
    /\ rq["r2"].pc = "v_read"
    /\ mu.readers = {"r1", "r2"}

NoSetErrorHandlerYet ==
    ehLog = <<>> /\ \A c \in Callers : caller[c].what # "eh"

\* C9: with no override and no SetErrorHandler call made, a failed request
\* has status 400 and the error's text as its body, from one invocation of
\* the built-in handler; the next handler was not invoked and nothing was
\* attached.
C9_BuiltinHandlerResponse ==
    \A r \in Requests :
        (Piped(r) /\ ~HasOverride(r) /\ rq[r].pc = "failed" /\ NoSetErrorHandlerYet) =>
            /\ rq[r].w = [status |-> StatusBadRequest, body |-> ErrorText(rq[r].err)]
            /\ rq[r].err.kind \in {"binding", "validation"}
            /\ Len(rq[r].errCalls) = 1
            /\ rq[r].errCalls[1].h = BuiltinErrorHandler
            /\ rq[r].nextCalls = 0
            /\ rq[r].handlerCtx = Background

C9_Witness ==
    \E r \in Requests :
        /\ Piped(r) /\ ~HasOverride(r) /\ rq[r].pc = "failed" /\ NoSetErrorHandlerYet
        /\ rq[r].req = ReqShortName
        /\ rq[r].w.status = StatusBadRequest
        /\ rq[r].w.body =
              <<"validation failed",
                <<Violation("ID", 0, "gt"), Violation("Body.Name", 0, "min")>> >>

\* C10: for the field declared query=token;header=X-Token the bound value is
\* the query value whenever the query key is present, empty or not; it is
\* the header value only when the query key is absent; it is the zero value
\* when both are absent; and no absence of a source makes binding fail on
\* that field.
C10_FirstPresentSourceWins ==
    \A r \in Requests :
        (Piped(r) /\ ShapeAt(r) = FallbackInputShape /\ rq[r].pc \notin {"idle", "decode"}) =>
            LET q == rq[r].req.params[Src("query", "token")]
                h == rq[r].req.params[Src("header", "X-Token")]
            IN  /\ rq[r].err.kind = "binding" => rq[r].err.field # "Token"
                /\ ~rq[r].input.nil =>
                      rq[r].input.val.Token =
                          IF q # <<>> THEN q[1]
                          ELSE IF h # <<>> THEN h[1] ELSE EmptyStr

\* ?token= with X-Token: alt binds the empty query value, and the handler
\* sees it
C10_Witness ==
    \E r \in Requests :
        /\ Piped(r) /\ ShapeAt(r) = FallbackInputShape /\ rq[r].pc = "done"
        /\ rq[r].req.params[Src("query", "token")] = <<EmptyStr>>
        /\ rq[r].req.params[Src("header", "X-Token")] = <<S_alt>>
        /\ rq[r].got = [type |-> "FallbackInput",
                        val |-> [Token |-> EmptyStr, ID |-> 42]]

\* the fields of a shape declared with a default
DefaultFields(shape) ==
    {i \in 1..Len(shape.fields) : shape.fields[i].hasDefault}

PastValidation ==
    {"dispatch", "handler", "done"} \cup ErrorPath

\* C11: for a field declared with a default, once decoding is over: when the
\* request gives the field's key no value, binding does not fail on the field
\* and the field holds the default literal; when the request gives it a value,
\* the field holds that value converted (never the default), binding failing
\* on a value that does not convert; and a bound value that breaks a rule of
\* the field has been through validation and is reported by the Validation
\* Error, unchanged.
C11_DefaultOnlyWhenAbsent ==
    \A r \in Requests :
        (Piped(r) /\ rq[r].pc \notin {"idle", "decode"}) =>
            \A i \in DefaultFields(ShapeAt(r)) :
                LET fd == ShapeAt(r).fields[i]
                    given == rq[r].req.params[fd.sources[1]]
                    bound == rq[r].input.val[fd.name]
                IN  /\ given = <<>> =>
                          /\ rq[r].err.kind = "binding" => rq[r].err.field # fd.name
                          /\ ~rq[r].input.nil => bound = ParseInt(fd.default).val
                    /\ given # <<>> =>
                          /\ ~ParseInt(given[1]).ok =>
                                (rq[r].input.nil /\ rq[r].err.kind = "binding")
                          /\ ~rq[r].input.nil => bound = ParseInt(given[1]).val
                    /\ (~rq[r].input.nil /\ rq[r].pc \in PastValidation) =>
                          /\ rq[r].validations = 1
                          /\ \A k \in DOMAIN fd.rules :
                                RuleViolated(fd.rules[k], fd.type, bound) =>
                                    /\ rq[r].err.kind = "validation"
                                    /\ Violation(fd.name, 0, fd.rules[k].name)
                                          \in Range(rq[r].err.violations)

\* ?page=0 under query=page;default=1 with gt=0: 0 is bound, not 1, and the
\* handler receives the violation of gt
C11_Witness ==
    \E r \in Requests :
        /\ Piped(r) /\ ShapeAt(r) = PagedInputShape /\ rq[r].pc = "failed"
        /\ rq[r].req.params[Src("query", "page")] = <<S_0>>
        /\ rq[r].input.val.Page = 0
        /\ rq[r].errCalls =
              <<[h |-> BuiltinErrorHandler,
                 err |-> ValidationError(<<Violation("Page", 0, "gt")>>)]>>

\* C12: through a middleware of MultiQueryInput (Tags []string, query=tag),
\* once the next handler runs, Get returns an instance whose Tags is the
\* sequence of the values the request gives the key tag: the same values, in
\* the same order, as many of them.
C12_SequenceKeepsOrderAndCount ==
    \A r \in Requests :
        (Piped(r) /\ ShapeAt(r) = MultiQueryInputShape
                  /\ rq[r].pc \in {"handler", "done"}) =>
            LET given == rq[r].req.params[Src("query", "tag")]
                tags == Get("MultiQueryInput", rq[r].handlerCtx).Tags
            IN  /\ Len(tags) = Len(given)
                /\ \A i \in 1..Len(given) : tags[i] = given[i]
                /\ (rq[r].pc = "done" /\ rq[r].got.type = "MultiQueryInput")
                      => rq[r].got.val.Tags = given

\* ?tag=a&tag=b&tag=c read in the handler as [a, b, c]
C12_Witness ==
    \E r \in Requests :
        /\ Piped(r) /\ ShapeAt(r) = MultiQueryInputShape /\ rq[r].pc = "done"
        /\ rq[r].req = ReqTags
        /\ rq[r].got = [type |-> "MultiQueryInput",
                        val |-> [Tags |-> <<S_a, S_b, S_c>>]]

\* the rules among `rules` that val breaks, by position
Breaks(rules, type, val) ==
    {k \in DOMAIN rules :
        rules[k].name # "dive_required" /\ RuleViolated(rules[k], type, val)}

\* the empty elements of a sequence under dive,required
EmptyElements(rules, val) ==
    IF \E k \in DOMAIN rules : rules[k].name = "dive_required"
    THEN {i \in DOMAIN val : val[i] = EmptyStr}
    ELSE {}

\* the (field, rule) pairs one value violates; with firstOnly, the first
\* rule it breaks alone
PairsOf(path, rules, type, val, firstOnly) ==
    LET b == Breaks(rules, type, val)
        kept == IF firstOnly THEN {k \in b : \A j \in b : k <= j} ELSE b
    IN  {Violation(path, 0, rules[k].name) : k \in kept}
        \cup (IF firstOnly /\ b # {} THEN {}
              ELSE {Violation(path, i, "required") : i \in EmptyElements(rules, val)})

\* the (field, rule) pairs the instance of r violates, top-level fields and
\* the fields of a nested body that is there
ViolatedPairs(r, firstOnly) ==
    UNION {LET fd == ShapeAt(r).fields[i]
               val == rq[r].input.val[fd.name]
           IN  PairsOf(fd.name, fd.rules, fd.type, val, firstOnly)
               \cup (IF fd.type = "body" /\ ~val.nil
                     THEN PairsOf("Body.Name", fd.nested, "string", val.Name,
                                  firstOnly)
                     ELSE {}) :
           i \in 1..Len(ShapeAt(r).fields)}

\* the fields of r's shape on which binding fails, by position
UnboundFields(r, eofIsError) ==
    {i \in 1..Len(ShapeAt(r).fields) :
        ~DecodeField(ShapeAt(r).fields[i], rq[r].req, eofIsError).ok}

\* binding stopped at the first field that cannot be bound and reports it alone
FirstBindingErrorOnly(r) ==
    rq[r].err.kind = "binding" =>
        /\ \E e \in EofChoices(rq[r].req) :
              /\ UnboundFields(r, e) # {}
              /\ \A i \in UnboundFields(r, e) :
                    (\A j \in UnboundFields(r, e) : i <= j)
                        => rq[r].err = BindingError(ShapeAt(r).fields[i].name)
        /\ rq[r].pc = "failed" =>
              (Len(rq[r].errCalls) = 1 /\ rq[r].errCalls[1].err = rq[r].err)

C15_SetValidatorReachesBuilt ==
    \A r \in Requests :
        Piped(r) =>
            /\ rq[r].validations > 0 => rq[r].v # Nil
            /\ rq[r].v # Nil =>
                  /\ rq[r].v = LatestAt(BuiltinValidator, vLog, rq[r].vIdx)
                  /\ rq[r].vIdx >= rq[r].vSeen
                  /\ rq[r].vIdx > pipes[rq[r].pipe].builtAtV =>
                        /\ rq[r].v = vLog[rq[r].vIdx]
                        /\ rq[r].v \in CustomValidators

\* the middleware constructed under the built-in validator, SetValidator(v1)
\* completed before the request arrived, the request validated with v1
C15_Witness ==
    \E r \in Requests :
        /\ Piped(r) /\ rq[r].pc = "done"
        /\ pipes[rq[r].pipe].builtAtV = 0
        /\ vLog = <<"v1">>
        /\ rq[r].vSeen = 1
        /\ rq[r].v = "v1"
        /\ rq[r].validations = 1

\* the states of a request through the pipeline
Assembling == {"decode"}
Validating == {"getValidator", "v_read", "v_runlock", "validate"}
Dispatching == {"dispatch", "handler", "done"}
Failed == ErrorPath

Phase(pc) ==
    CASE pc \in Assembling -> "Assembling"
      [] pc \in Validating -> "Validating"
      [] pc \in Dispatching -> "Dispatching"
      [] pc \in Failed -> "Failed"
      [] OTHER -> "Idle"

\* the moves between the states: the success path and the two error paths
PhaseMoves ==
    {<<"Idle", "Assembling">>, <<"Assembling", "Validating">>,
     <<"Validating", "Dispatching">>, <<"Assembling", "Failed">>,
     <<"Validating", "Failed">>}

\* the handlers invoked so far are those of the state the request is in
HandlersOfPhase ==
    \A r \in Requests :
        Piped(r) =>
            /\ rq[r].pc \in {"handler", "done"} =>
                  (rq[r].nextCalls = 1 /\ rq[r].errCalls = <<>>)
            /\ rq[r].pc = "failed" =>
                  (Len(rq[r].errCalls) = 1 /\ rq[r].nextCalls = 0)
            /\ rq[r].pc \notin {"handler", "done", "failed"} =>
                  (rq[r].nextCalls = 0 /\ rq[r].errCalls = <<>>)

\* C16: a request in a pipeline moves between the states only along
\* Idle - Assembling - Validating - Dispatching, Assembling - Failed and
\* Validating - Failed; once the next handler is invoked it was invoked once
\* and no error handler was, once the request has failed the error handler was
\* invoked once and the next handler was not, and before that neither was;
\* and every request that starts decoding comes to have its next handler
\* invoked or to have failed.
C16_OnePathOneHandler ==
    /\ []HandlersOfPhase
    /\ [][\A r \in Requests :
            (Piped(r)' /\ Phase(rq[r].pc) # Phase(rq'[r].pc)) =>
                <<Phase(rq[r].pc), Phase(rq'[r].pc)>> \in PhaseMoves]_vars
    /\ \A r \in Requests :
          (rq[r].pc = "decode") ~> (rq[r].pc \in {"handler", "done", "failed"})

\* a request failed in validation under the override, its one handler
\* invoked once, after every Set* call allowed was made
C16_Witness ==
    \E r \in Requests :
        /\ Piped(r) /\ rq[r].pc = "failed" /\ rq[r].req = ReqShortName
        /\ rq[r].validations = 1
        /\ rq[r].errCalls = <<[h |-> "o1", err |-> rq[r].err]>>
        /\ rq[r].nextCalls = 0
        /\ Len(vLog) + Len(ehLog) = MaxSets

\* the validation step has been entered for r
EnteredValidation(r) == rq[r].pc \in Validating \/ rq[r].validations > 0

\* the declared sources of fd that the request gives a value, by position
PresentSources(fd, req) ==
    {j \in DOMAIN fd.sources : req.params[fd.sources[j]] # <<>>}

\* nothing of the request stands against binding it to the shape of r: every
\* required field is given a value, every value given to an integer field is
\* an integer, and the body is JSON
Bindable(r) ==
    \A i \in 1..Len(ShapeAt(r).fields) :
        LET fd == ShapeAt(r).fields[i]
            at == PresentSources(fd, rq[r].req)
        IN  IF fd.type = "body" THEN rq[r].req.body.kind = "json"
            ELSE /\ fd.required => at # {}
                 /\ (fd.type = "int" /\ at # {}) =>
                       \A j \in at :
                           (\A k \in at : j <= k)
                               => ParseInt(rq[r].req.params[fd.sources[j]][1]).ok

\* C17: the validation step is entered only with the instance a successful
\* decoding returned, in which every field declared required holds the
\* converted value of a source the request gave; and a request that can be
\* bound enters validation whatever rules its values break: it is validated
\* once and, breaking a rule, fails with a Validation Error, never with a
\* Binding Error.
C17_ValidationAfterAssembly ==
    \A r \in Requests :
        Piped(r) =>
            /\ EnteredValidation(r) =>
                  /\ ~rq[r].input.nil
                  /\ \E d \in DecodeResults(r) :
                        d.err = NoErr /\ d.input = rq[r].input
                  /\ rq[r].pc \in Validating => rq[r].err = NoErr
                  /\ \A i \in 1..Len(ShapeAt(r).fields) :
                        LET fd == ShapeAt(r).fields[i]
                            at == PresentSources(fd, rq[r].req)
                        IN  fd.required =>
                              /\ at # {}
                              /\ \E j \in at :
                                    rq[r].input.val[fd.name] =
                                        ParseInt(rq[r].req.params[fd.sources[j]][1]).val
            /\ (Bindable(r) /\ rq[r].pc \notin {"idle", "decode"}) =>
                  /\ EnteredValidation(r)
                  /\ rq[r].err.kind # "binding"
                  /\ rq[r].pc \in PastValidation =>
                        /\ rq[r].validations = 1
                        /\ ViolatedPairs(r, FALSE) # {} => rq[r].err.kind = "validation"

\* ?id=42 under query=id;required: validation about to run on ID = 42
C17_Witness ==
    \E r \in Requests :
        /\ Piped(r) /\ ShapeAt(r) = FallbackInputShape /\ rq[r].pc = "validate"
        /\ rq[r].req.params[Src("query", "id")] = <<S_42>>
        /\ rq[r].input.val.ID = 42
        /\ rq[r].validations = 0

\* the instance r's own request decodes to, where decoding succeeds
OwnInstances(r) ==
    {d.input.val : d \in {e \in DecodeResults(r) : e.err = NoErr}}

\* what each request's contexts hold
OwnInstanceOnly ==
    \A r \in Requests :
        /\ rq[r].ctx = Background
        /\ Piped(r) =>
              IF rq[r].pc \in {"handler", "done"}
              THEN /\ Get(ShapeAt(r).name, rq[r].handlerCtx) \in OwnInstances(r)
                   /\ Value(rq[r].handlerCtx, InputKey) = rq[r].input
                   /\ (rq[r].pc = "done" /\ rq[r].got.type = ShapeAt(r).name)
                         => rq[r].got.val \in OwnInstances(r)
              ELSE rq[r].handlerCtx = Background

\* C18: with requests interleaved through one middleware, the instance Get
\* returns in a request's next handler is the one decoded from that request;
\* the incoming request's context never holds an instance, the context given
\* to the next handler holds that request's instance and no request's
\* context holds anything before its own dispatch; and the middleware, once
\* constructed, is never changed by a request.
C18_OwnInstanceUnderInterleaving ==
    /\ []OwnInstanceOnly
    /\ [][\A p \in PipeIds : pipes[p].state = "built" => pipes'[p] = pipes[p]]_vars

\* two requests through p1, each handler reading its own instance
C18_Witness ==
    /\ rq["r1"].pipe = "p1" /\ rq["r2"].pipe = "p1"
    /\ rq["r1"].pc = "done" /\ rq["r2"].pc = "done"
    /\ rq["r1"].req = ReqOK /\ rq["r2"].req = ReqOther
    /\ rq["r1"].got = [type |-> "Input", val |-> ExpectedOK]
    /\ rq["r2"].got =
          [type |-> "Input",
           val |-> [ID |-> 1, Page |-> 1, Token |-> S_alt,
                    Body |-> [nil |-> FALSE, Name |-> S_John],
                    Field |-> EmptyStr]]

\* r is in the final handler of two chained middlewares of different shapes
ChainedThrough(r) ==
    /\ Piped(r) /\ rq[r].outer # Bare
    /\ rq[r].pc \in {"handler", "done"}
    /\ pipes[rq[r].outer].shape # pipes[rq[r].pipe].shape

\* C19: after a request has passed two chained middlewares of different
\* shapes A (outer) and B (inner), in the final handler Get[A] returns the
\* instance the A middleware validated and Get[B] the instance the B
\* middleware validated.
C19_ChainedKeepsBoth ==
    \A r \in Requests :
        ChainedThrough(r) =>
            /\ Get(pipes[rq[r].outer].shape, rq[r].handlerCtx) = rq[r].outerInput.val
            /\ Get(pipes[rq[r].pipe].shape, rq[r].handlerCtx) = rq[r].input.val

\* what the final handler of the chain does get: the inner instance, and the
\* zero value for the outer shape
C19_InnerHidesOuter ==
    \A r \in Requests :
        ChainedThrough(r) =>
            /\ Get(pipes[rq[r].outer].shape, rq[r].handlerCtx)
                  = Zero(ShapeOf(pipes[rq[r].outer].shape))
            /\ Get(pipes[rq[r].pipe].shape, rq[r].handlerCtx) = rq[r].input.val
            /\ rq[r].ctx = WithValue(Background, InputKey, rq[r].outerInput)

\* C20: whatever SetErrorHandler calls were made and whatever options the
\* middleware was given, the handler handleError resolves is not nil, and no
\* failing request ends in a fault of the wrapper: once the wrapper has
\* returned, one handler has received the error.
C20_ResolvedHandlerCallable ==
    \A r \in Requests :
        Piped(r) =>
            /\ rq[r].pc = "call" => rq[r].handler # Nil
            /\ rq[r].pc # "faulted"
            /\ rq[r].pc = "failed" => Len(rq[r].errCalls) = 1

\* SetErrorHandler(nil) has been called, or is being called
NilWasSet ==
    \/ Nil \in Range(ehLog)
    \/ \E c \in Callers : caller[c].what = "eh" /\ caller[c].val = Nil

\* what holds of the code: the resolved handler is nil only after
\* SetErrorHandler(nil) and only without an override in effect; any option
\* list, WithErrorHandler(nil) included, resolves to a handler that can be
\* called as long as the registry was never given nil
C20_CallableUnlessNilSet ==
    \A r \in Requests :
        Piped(r) =>
            /\ (rq[r].pc = "call" /\ rq[r].handler = Nil) =>
                  (NilWasSet /\ ~HasOverride(r))
            /\ rq[r].pc = "faulted" => (NilWasSet /\ ~HasOverride(r))
            /\ rq[r].pc = "failed" => Len(rq[r].errCalls) = 1

====
